---- MODULE Spec2Model ----
(***************************************************************************)
(* Playlist-to-tree synchronisation of the update walk                     *)
(* (src/db/update/Playlist.cxx): the dispatch on a playlist file's plugin, *)
(* the expansion of a playlist file into a virtual Directory, the override *)
(* of real Songs, the rollback on a hard stop, the registration of a       *)
(* PlaylistInfo, and the purge of dangling virtual Songs; and the output   *)
(* buffer of the Twolame encoder (src/encoder/TwolameEncoderPlugin.cxx).   *)
(*                                                                         *)
(* Strings are tuples of one-character strings, so that "../" + uri,       *)
(* "track%04u" and the prefix tests are computed, not assumed.             *)
(***************************************************************************)
EXTENDS Integers, Sequences, FiniteSets, TLC

\* ------------------------------------------------------------------ bounds
\* longest sequence a SongEnumerator yields
MaxLen == 3

\* --------------------------------------------------------------- strings
\* the reserved URI of line 57
BailURI == <<"m", "p", "d", ":", "/", "/", "b", "a", "i", "l">>
\* the prefix of line 76
DotDotSlash == <<".", ".", "/">>
\* the prefix of line 77
TrackPrefix == <<"t", "r", "a", "c", "k">>
DigitChars == <<"0", "1", "2", "3", "4", "5", "6", "7", "8", "9">>

\* file names a real Song of the parent can have
FileNames == {<<"a">>, <<"b">>}
\* URIs a playlist entry can carry: relative names, an absolute path, the sentinel
URIs == FileNames \cup {<<"/", "a">>, BailURI}
\* names of playlist files in the parent directory
PlaylistNames == {"p"}
\* modification times a playlist file can have: an old and a new one
Mtimes == {1, 2}

\* the empty string: the target of a real Song, and unset locals
EmptyStr == <<>>
\* an unset std::unique_ptr<Song>
NoSong == [filename |-> EmptyStr, target |-> EmptyStr]

HasPrefix(s, p) == Len(s) >= Len(p) /\ SubSeq(s, 1, Len(p)) = p

\* PathTraitsUTF8::IsAbsoluteOrHasScheme: a leading '/', or "scheme://"
IsAbsoluteOrHasScheme(s) ==
    \/ (Len(s) >= 1 /\ s[1] = "/")
    \/ \E i \in 2..Len(s) :
          /\ i + 2 <= Len(s)
          /\ s[i] = ":" /\ s[i + 1] = "/" /\ s[i + 2] = "/"
          /\ \A j \in 1..(i - 1) : s[j] \notin {"/", ":", "."}

\* printf("%u"): the decimal digits of n, most significant first
RECURSIVE Decimal(_)
Decimal(n) ==
    IF n < 10 THEN <<DigitChars[n + 1]>>
    ELSE Decimal(n \div 10) \o <<DigitChars[(n % 10) + 1]>>

\* printf("%04u"): zero-padded to at least four digits
RECURSIVE ZeroPad4(_)
ZeroPad4(d) == IF Len(d) >= 4 THEN d ELSE ZeroPad4(<<"0">> \o d)

\* line 77: StringFormat<64>("track%04u", n)
TrackName(n) == TrackPrefix \o ZeroPad4(Decimal(n))


\* ----------------------------------------------------------- code helpers
\* mutant of IsBail: the sentinel is never recognised
IsBailNever(uri) == FALSE

\* line 57: strcmp(song->GetURI(), "mpd://bail") == 0
IsBail(uri) == uri = BailURI

\* mutant of MakeTarget: the "../" prefix is forgotten
MakeTargetRaw(target_fn) == target_fn

\* lines 69-76: absolute targets are kept, relative ones get "../" prepended
MakeTarget(target_fn) ==
    IF IsAbsoluteOrHasScheme(target_fn) THEN target_fn
    ELSE DotDotSlash \o target_fn

\* line 78: ++track
NextTrack(t) == t + 1

\* mutant of NewDbSong: track++ instead of ++track
NewDbSongPostIncrement(uri, t) ==
    [filename |-> TrackName(t), target |-> MakeTarget(uri)]

\* lines 66-79: the Song built for the virtual Directory
NewDbSong(uri, t) ==
    [filename |-> TrackName(NextTrack(t)), target |-> MakeTarget(uri)]

\* lines 49-51: song_map, keyed by the filenames of the parent's songs
SnapshotSongMap(parent_songs) == DOMAIN parent_songs

\* mutant of HasDirectory: the null check is missing
HasDirectoryAlways(dir) == TRUE

\* lines 66, 93: if (directory != nullptr)
HasDirectory(dir) == dir # "null"

\* mutant of RollsBack: the rollback is missing
RollsBackNever(dir) == FALSE

\* mutant of RollsBack: the test is inverted
RollsBackInverted(dir) == dir = "null"

\* lines 59, 86, 128, 141: if (directory != nullptr), before the rollback
RollsBack(dir) == dir # "null"

\* line 94: directory->AddSong(std::move(db_song))
AddSong(dir_songs, s) == Append(dir_songs, s)

\* mutant of RemoveOverridden: the real Song stays
KeepOverridden(parent_songs, map, target_fn) == parent_songs

\* lines 95-99: parent.RemoveSong(match->second) when song_map has the target
RemoveOverridden(parent_songs, map, target_fn) ==
    IF target_fn \in map
    THEN [f \in (DOMAIN parent_songs) \ {target_fn} |-> parent_songs[f]]
    ELSE parent_songs

\* mutant of EraseMatch: the entry of the removed Song stays in the map
EraseMatchKeeps(map, target_fn) == map

\* line 98: song_map.erase(match)
EraseMatch(map, target_fn) == map \ {target_fn}

\* editor.LockDeleteDirectory(directory): the child leaves parent.children
DeleteDirectory(kids, n) == [d \in (DOMAIN kids) \ {n} |-> kids[d]]

\* line 135: directory->IsEmpty()
IsEmpty(dir_rec) == Len(dir_rec.songs) = 0

\* Directory::LookupTargetSong from a virtual Directory: each leading "../"
\* ascends to the parent, the rest names a Song there; <<>> is nullptr
LookupTargetSong(parent_songs, target) ==
    IF HasPrefix(target, DotDotSlash)
    THEN LET rest == SubSeq(target, Len(DotDotSlash) + 1, Len(target))
         IN  IF rest \in DOMAIN parent_songs THEN <<rest>> ELSE <<>>
    ELSE <<>>

\* lines 181-182: the Songs the purge examines
PurgeExamines(s) ==
    s.target # EmptyStr /\ ~IsAbsoluteOrHasScheme(s.target)

\* mutant of PurgeDeletes: the nullptr test is inverted
PurgeDeletesResolved(parent_songs, s) ==
    /\ s.target # EmptyStr
    /\ ~IsAbsoluteOrHasScheme(s.target)
    /\ s.target \in { DotDotSlash \o f : f \in DOMAIN parent_songs }

\* lines 183-188: the examined Song is deleted when its target is nullptr
PurgeDeletes(parent_songs, s) ==
    PurgeExamines(s) /\ LookupTargetSong(parent_songs, s.target) = <<>>

\* lines 189-193: the Songs of the parent some kept virtual Song resolves to
PurgeMarks(parent_songs, kids) ==
    { f \in DOMAIN parent_songs :
        \E d \in DOMAIN kids : \E i \in 1..Len(kids[d].songs) :
            /\ PurgeExamines(kids[d].songs[i])
            /\ LookupTargetSong(parent_songs, kids[d].songs[i].target) = <<f>> }

\* ------------------------------------------------------------------ state
VARIABLES
    songs,           \* parent.songs: filename -> in_playlist
    children,        \* parent.children: name -> [mtime, songs] (virtual Directories)
    modified,        \* UpdateWalk::modified
    db_mutex,        \* holder of the database lock: "free", "walker", "reader"
    pc,              \* position of the update thread
    name,            \* argument: the playlist file's name
    info_mtime,      \* argument: info.mtime
    directory,       \* the Directory* of line 111: "null", "valid", "dangling"
    track,           \* line 47
    song_map,        \* line 49
    target_filename, \* line 64
    db_song,         \* line 65
    fetched,         \* history: the entries NextSong has returned so far
    stop,            \* history: why the expansion ended early
    sync,            \* history: what LockMakeVirtualDirectoryIfModified did
    pre_songs,       \* history: parent.songs when the operation began
    pre_children,    \* history: parent.children when the operation began
    sawPartial,      \* history: a reader saw Songs of the running expansion
    playlists,       \* parent.playlists: sequence of PlaylistInfo [name, mtime]
    plugin,          \* line 151: "folder", "flat", "null" (none), "unset"
    result,          \* the value lines 153, 165 return: "true", "false", "unset"
    pre_modified,    \* history: modified when the operation began
    pre_playlists,   \* history: parent.playlists when the operation began
    opened,          \* the encoder is open (twolame_encoder_open succeeded)
    output_buffer_length,   \* TwolameEncoder::output_buffer_length
    output_buffer_position, \* TwolameEncoder::output_buffer_position
    flush,           \* TwolameEncoder::flush
    last             \* history: the last encoder call, its argument and result

tree == <<songs, children, modified>>
locals == <<name, info_mtime, directory, track, song_map, target_filename, db_song>>
history == <<fetched, stop, sync, pre_songs, pre_children>>
dispatch == <<playlists, plugin, result, pre_modified, pre_playlists>>
encoder == <<opened, output_buffer_length, output_buffer_position, flush, last>>
playlist == <<tree, db_mutex, pc, locals, history, sawPartial, dispatch>>
vars == <<tree, db_mutex, pc, locals, history, sawPartial, dispatch, encoder>>

NoChildren == [d \in {} |-> [mtime |-> 0, songs |-> <<>>]]
NoSongs == [f \in {} |-> FALSE]
\* no encoder call has been made
NoCall == [op |-> "none", requested |-> 0, returned |-> 0]

Init ==
    /\ songs \in UNION { [S -> {FALSE}] : S \in SUBSET FileNames }
    /\ children = NoChildren
    /\ modified = FALSE
    /\ db_mutex = "free"
    /\ pc = "idle"
    /\ name = ""
    /\ info_mtime = 0
    /\ directory = "null"
    /\ track = 0
    /\ song_map = {}
    /\ target_filename = EmptyStr
    /\ db_song = NoSong
    /\ fetched = <<>>
    /\ stop = "none"
    /\ sync = "none"
    /\ pre_songs = NoSongs
    /\ pre_children = NoChildren
    /\ sawPartial = FALSE
    /\ playlists = <<>>
    /\ plugin = "unset"
    /\ result = "unset"
    /\ pre_modified = FALSE
    /\ pre_playlists = <<>>
    /\ opened = FALSE
    /\ output_buffer_length = 0
    /\ output_buffer_position = 0
    /\ flush = FALSE
    /\ last = NoCall

\* line 158: PlaylistInfo pi(name, info.mtime)
MakePlaylistInfo(n, m) == [name |-> n, mtime |-> m]

\* PlaylistVector::UpdateOrInsert: the entry of that name takes the new
\* mtime, or the PlaylistInfo is appended; tells whether anything changed
UpdateOrInsert(list, pi) ==
    LET found == {i \in 1..Len(list) : list[i].name = pi.name}
    IN  IF found = {}
        THEN [list |-> Append(list, pi), changed |-> TRUE]
        ELSE LET i == CHOOSE k \in found : \A j \in found : k <= j
             IN  IF list[i].mtime = pi.mtime
                 THEN [list |-> list, changed |-> FALSE]
                 ELSE [list |-> [list EXCEPT ![i].mtime = pi.mtime],
                       changed |-> TRUE]

\* mutant of SetModified: modified is set whatever UpdateOrInsert tells
SetModifiedAlways(old, changed) == TRUE

\* lines 160-161: if (UpdateOrInsert(...)) modified = true
SetModified(old, changed) == old \/ changed

\* mutant of ScopeDatabaseLockHeld: the edits run without the lock
ScopeDatabaseLockMissing(holder) == holder # "reader"

\* lines 92, 159: inside the scope of a ScopeDatabaseLock the update thread
\* holds the database lock
ScopeDatabaseLockHeld(holder) == holder = "walker"

\* mutant of ScopeDatabaseLockEnd: the lock is still held after the section
ScopeDatabaseLockKept(holder) == holder

\* lines 100, 162: the scope of the ScopeDatabaseLock ends and releases the lock
ScopeDatabaseLockEnd(holder) == "free"

\* ------------------------------------------------------- the update thread
\* the positions at which the update thread needs the database lock
LockedPcs == {"sync", "add", "drain_delete", "open_delete", "catch_delete",
              "final_delete", "register", "purge"}

\* lines 151-156, 104-108: the suffix has a plugin that expands as a folder;
\* UpdatePlaylistFile(parent, name, info, plugin) is entered
Begin(n, m) ==
    /\ pc = "idle"
    /\ pc' = "sync"
    /\ plugin' = "folder"
    /\ name' = n
    /\ info_mtime' = m
    /\ pre_songs' = songs
    /\ pre_children' = children
    /\ pre_modified' = modified
    /\ pre_playlists' = playlists
    /\ UNCHANGED <<tree, db_mutex, directory, track, song_map, target_filename,
                   db_song, fetched, stop, sync, sawPartial, playlists, result,
                   encoder>>

\* ScopeDatabaseLock / the Lock...() wrappers: the update thread takes the lock
WalkerLock ==
    /\ pc \in LockedPcs
    /\ db_mutex = "free"
    /\ db_mutex' = "walker"
    /\ UNCHANGED <<tree, pc, locals, history, sawPartial>>
    /\ UNCHANGED <<dispatch, encoder>>

\* MakeVirtualDirectoryIfModified: create, reuse emptied, or nullptr (unchanged)
MakeVirtualDirectoryIfModified(kids, n, m) ==
    IF n \notin DOMAIN kids
    THEN [children |-> [d \in (DOMAIN kids) \cup {n} |->
                          IF d = n THEN [mtime |-> m, songs |-> <<>>] ELSE kids[d]],
          directory |-> "valid", sync |-> "created"]
    ELSE IF kids[n].mtime = m
    THEN [children |-> kids, directory |-> "null", sync |-> "unchanged"]
    ELSE [children |-> [kids EXCEPT ![n] = [mtime |-> m, songs |-> <<>>]],
          directory |-> "valid", sync |-> "reused"]

\* lines 111-113
LockMakeVirtualDirectoryIfModified ==
    /\ pc = "sync"
    /\ db_mutex = "walker"
    /\ LET r == MakeVirtualDirectoryIfModified(children, name, info_mtime)
       IN  /\ children' = r.children
           /\ directory' = r.directory
           /\ sync' = r.sync
    /\ db_mutex' = "free"
    /\ pc' = "open"
    /\ UNCHANGED <<songs, modified, name, info_mtime, track, song_map,
                   target_filename, db_song, fetched, stop, pre_songs,
                   pre_children, sawPartial>>
    /\ UNCHANGED <<dispatch, encoder>>

\* lines 124-125 and 133, 47-51: the stream opens and the drain begins
OpenStreamOk ==
    /\ pc = "open"
    /\ track' = 0
    /\ song_map' = SnapshotSongMap(songs)
    /\ pc' = "next"
    /\ UNCHANGED <<tree, db_mutex, name, info_mtime, directory, target_filename,
                   db_song, history, sawPartial>>
    /\ UNCHANGED <<dispatch, encoder>>

\* lines 126-131: the plugin yields no SongEnumerator
OpenStreamNull ==
    /\ pc = "open"
    /\ stop' = "open_null"
    /\ pc' = IF RollsBack(directory) THEN "open_delete" ELSE "done"
    /\ UNCHANGED <<tree, db_mutex, locals, fetched, sync, pre_songs,
                   pre_children, sawPartial>>
    /\ UNCHANGED <<dispatch, encoder>>

\* lines 137-142: OpenReady or open_stream throws, caught by catch (...)
OpenStreamThrows ==
    /\ pc = "open"
    /\ stop' = "open_throw"
    /\ pc' = IF RollsBack(directory) THEN "catch_delete" ELSE "done"
    /\ UNCHANGED <<tree, db_mutex, locals, fetched, sync, pre_songs,
                   pre_children, sawPartial>>
    /\ UNCHANGED <<dispatch, encoder>>

\* lines 54-79: NextSong returns an entry
NextSongEntry(uri) ==
    /\ pc = "next"
    /\ Len(fetched) < MaxLen
    /\ fetched' = Append(fetched, uri)
    /\ IF IsBail(uri)
       THEN /\ stop' = "bail"
            /\ pc' = IF RollsBack(directory) THEN "drain_delete" ELSE "check"
            /\ UNCHANGED <<target_filename, db_song, track>>
       ELSE /\ target_filename' = uri
            /\ IF HasDirectory(directory)
               THEN /\ db_song' = NewDbSong(uri, track)
                    /\ track' = NextTrack(track)
               ELSE UNCHANGED <<db_song, track>>
            /\ pc' = "stat"
            /\ UNCHANGED stop
    /\ UNCHANGED <<tree, db_mutex, name, info_mtime, directory, song_map, sync,
                   pre_songs, pre_children, sawPartial>>
    /\ UNCHANGED <<dispatch, encoder>>

\* lines 54-56: NextSong returns nullptr, the sequence is exhausted
NextSongEnd ==
    /\ pc = "next"
    /\ pc' = "check"
    /\ UNCHANGED <<tree, db_mutex, locals, history, sawPartial>>
    /\ UNCHANGED <<dispatch, encoder>>

\* line 54 inside a noexcept function (line 45): an exception from NextSong
\* reaches std::terminate
NextSongThrows ==
    /\ pc = "next"
    /\ stop' = "iter_error"
    /\ pc' = "crashed"
    /\ UNCHANGED <<tree, db_mutex, locals, fetched, sync, pre_songs,
                   pre_children, sawPartial>>
    /\ UNCHANGED <<dispatch, encoder>>

\* lines 81-89: the existence probe; its answer is the storage's
Stat(found) ==
    /\ pc = "stat"
    /\ IF found
       THEN /\ pc' = "add"
            /\ UNCHANGED <<stop, db_song>>
       ELSE /\ stop' = "missing"
            /\ db_song' = NoSong
            /\ pc' = IF RollsBack(directory) THEN "drain_delete" ELSE "check"
    /\ UNCHANGED <<tree, db_mutex, name, info_mtime, directory, track, song_map,
                   target_filename, fetched, sync, pre_songs, pre_children,
                   sawPartial>>
    /\ UNCHANGED <<dispatch, encoder>>

\* lines 91-100: the critical section of one entry
AddAndOverride ==
    /\ pc = "add"
    /\ ScopeDatabaseLockHeld(db_mutex)
    /\ children' = IF HasDirectory(directory)
                   THEN [children EXCEPT ![name].songs = AddSong(@, db_song)]
                   ELSE children
    /\ songs' = RemoveOverridden(songs, song_map, target_filename)
    /\ song_map' = EraseMatch(song_map, target_filename)
    /\ db_song' = NoSong
    /\ db_mutex' = ScopeDatabaseLockEnd(db_mutex)
    /\ pc' = "next"
    /\ UNCHANGED <<modified, name, info_mtime, directory, track, target_filename,
                   history, sawPartial>>
    /\ UNCHANGED <<dispatch, encoder>>

\* lines 60, 87, 129, 136, 142: editor.LockDeleteDirectory(directory) on a
\* live Directory
LockDeleteDirectory ==
    /\ pc \in {"drain_delete", "open_delete", "catch_delete", "final_delete"}
    /\ db_mutex = "walker"
    /\ directory = "valid"
    /\ children' = DeleteDirectory(children, name)
    /\ directory' = "dangling"
    /\ db_mutex' = "free"
    /\ pc' = IF pc = "drain_delete" THEN "check" ELSE "done"
    /\ UNCHANGED <<songs, modified, name, info_mtime, track, song_map,
                   target_filename, db_song, history, sawPartial>>
    /\ UNCHANGED <<dispatch, encoder>>

\* line 135 with a live Directory
CheckEmpty ==
    /\ pc = "check"
    /\ directory = "valid"
    /\ pc' = IF IsEmpty(children[name]) THEN "final_delete" ELSE "done"
    /\ UNCHANGED <<tree, db_mutex, locals, history, sawPartial>>
    /\ UNCHANGED <<dispatch, encoder>>

\* line 135 with directory == nullptr (unchanged playlist): a null
\* dereference, the process takes a fault
CheckEmptyNull ==
    /\ pc = "check"
    /\ directory = "null"
    /\ pc' = "crashed"
    /\ UNCHANGED <<tree, db_mutex, locals, history, sawPartial>>
    /\ UNCHANGED <<dispatch, encoder>>

\* line 135 after the drain deleted the Directory (lines 60, 87): a read of
\* freed memory, which faults or yields either answer
CheckEmptyDangling(outcome) ==
    /\ pc = "check"
    /\ directory = "dangling"
    /\ pc' = CASE outcome = "fault" -> "crashed"
               [] outcome = "empty" -> "final_delete"
               [] OTHER -> "done"
    /\ UNCHANGED <<tree, db_mutex, locals, history, sawPartial>>
    /\ UNCHANGED <<dispatch, encoder>>

\* line 136 on the dangling pointer: a second delete of the freed Directory,
\* which aborts (double free) or passes unnoticed; the tree no longer holds it
DeleteDangling(aborts) ==
    /\ pc = "final_delete"
    /\ db_mutex = "walker"
    /\ directory = "dangling"
    /\ db_mutex' = "free"
    /\ pc' = IF aborts THEN "crashed" ELSE "done"
    /\ UNCHANGED <<tree, locals, history, sawPartial>>
    /\ UNCHANGED <<dispatch, encoder>>

\* lines 130, 144, 165: the expansion is over and the dispatcher returns true
ReturnTrue ==
    /\ pc \in {"done", "registered"}
    /\ pc' = "returned"
    /\ result' = "true"
    /\ UNCHANGED <<tree, db_mutex, locals, history, sawPartial, playlists,
                   plugin, pre_modified, pre_playlists, encoder>>

\* the walker has the dispatcher's answer and goes on; the locals of the
\* operation go out of scope
Return ==
    /\ pc = "returned"
    /\ pc' = "idle"
    /\ name' = ""
    /\ info_mtime' = 0
    /\ directory' = "null"
    /\ track' = 0
    /\ song_map' = {}
    /\ target_filename' = EmptyStr
    /\ db_song' = NoSong
    /\ fetched' = <<>>
    /\ stop' = "none"
    /\ sync' = "none"
    /\ pre_songs' = NoSongs
    /\ pre_children' = NoChildren
    /\ sawPartial' = FALSE
    /\ plugin' = "unset"
    /\ result' = "unset"
    /\ pre_modified' = FALSE
    /\ pre_playlists' = <<>>
    /\ UNCHANGED <<tree, db_mutex, playlists, encoder>>

\* the walk is over: its caller takes the database lock for the purge
BeginPurge ==
    /\ pc = "idle"
    /\ pc' = "purge"
    /\ UNCHANGED <<tree, db_mutex, locals, history, sawPartial, dispatch, encoder>>

\* lines 168-196: one pass over the tree, run by the walker under the lock
\* its caller holds
PurgeDanglingFromPlaylists ==
    /\ pc = "purge"
    /\ db_mutex = "walker"
    /\ db_mutex' = "free"
    /\ pre_songs' = songs
    /\ pre_children' = children
    /\ children' = [d \in DOMAIN children |->
                      [children[d] EXCEPT !.songs =
                          SelectSeq(@, LAMBDA s : ~PurgeDeletes(songs, s))]]
    /\ songs' = [f \in DOMAIN songs |->
                      songs[f] \/ f \in PurgeMarks(songs, children)]
    /\ modified' = (modified \/ \E d \in DOMAIN children :
                                   \E i \in 1..Len(children[d].songs) :
                                       PurgeDeletes(songs, children[d].songs[i]))
    /\ pc' = "purged"
    /\ UNCHANGED <<locals, fetched, stop, sync, sawPartial>>
    /\ UNCHANGED <<dispatch, encoder>>

\* the purge is the last step of a walk: the walk ends, and the next one
\* starts with modified = false
WalkEnds ==
    /\ pc = "purged"
    /\ pc' = "idle"
    /\ modified' = FALSE
    /\ pre_songs' = NoSongs
    /\ pre_children' = NoChildren
    /\ UNCHANGED <<songs, children, db_mutex, locals, fetched, stop, sync,
                   sawPartial>>
    /\ UNCHANGED <<dispatch, encoder>>

\* the filesystem walk finds a song file and adds its Song to the parent
WalkAddSong(f) ==
    /\ pc = "idle"
    /\ db_mutex = "free"
    /\ f \notin DOMAIN songs
    /\ songs' = [g \in (DOMAIN songs) \cup {f} |->
                    IF g = f THEN FALSE ELSE songs[g]]
    /\ UNCHANGED <<children, modified, db_mutex, pc, locals, history, sawPartial>>
    /\ UNCHANGED <<dispatch, encoder>>

\* ------------------------------------------------------------- the readers
\* the reader sees Songs of the virtual Directory the running expansion fills
PartialVisible ==
    /\ pc \notin {"idle", "done", "returned", "purged", "crashed"}
    /\ directory = "valid"
    /\ name \in DOMAIN children
    /\ Len(children[name].songs) > 0

\* a reader thread takes the database lock and reads the tree
ReaderLock ==
    /\ db_mutex = "free"
    /\ db_mutex' = "reader"
    /\ sawPartial' = (sawPartial \/ PartialVisible)
    /\ UNCHANGED <<tree, pc, locals, history>>
    /\ UNCHANGED <<dispatch, encoder>>

ReaderUnlock ==
    /\ db_mutex = "reader"
    /\ db_mutex' = "free"
    /\ UNCHANGED <<tree, pc, locals, history, sawPartial>>
    /\ UNCHANGED <<dispatch, encoder>>

\* lines 151-153: no plugin handles the suffix; the dispatcher returns false
NotPlaylist(n, m) ==
    /\ pc = "idle"
    /\ pc' = "returned"
    /\ plugin' = "null"
    /\ result' = "false"
    /\ name' = n
    /\ info_mtime' = m
    /\ pre_songs' = songs
    /\ pre_children' = children
    /\ pre_modified' = modified
    /\ pre_playlists' = playlists
    /\ UNCHANGED <<tree, db_mutex, directory, track, song_map, target_filename,
                   db_song, fetched, stop, sync, sawPartial, playlists, encoder>>

\* lines 151-158: the suffix has a plugin that does not expand as a folder
BeginRegister(n, m) ==
    /\ pc = "idle"
    /\ pc' = "register"
    /\ plugin' = "flat"
    /\ name' = n
    /\ info_mtime' = m
    /\ pre_songs' = songs
    /\ pre_children' = children
    /\ pre_modified' = modified
    /\ pre_playlists' = playlists
    /\ UNCHANGED <<tree, db_mutex, directory, track, song_map, target_filename,
                   db_song, fetched, stop, sync, sawPartial, playlists, result,
                   encoder>>

\* lines 158-162: the critical section of the PlaylistInfo upsert
UpdateOrInsertPlaylist ==
    /\ pc = "register"
    /\ ScopeDatabaseLockHeld(db_mutex)
    /\ LET r == UpdateOrInsert(playlists, MakePlaylistInfo(name, info_mtime))
       IN  /\ playlists' = r.list
           /\ modified' = SetModified(modified, r.changed)
    /\ db_mutex' = ScopeDatabaseLockEnd(db_mutex)
    /\ pc' = "registered"
    /\ UNCHANGED <<songs, children, locals, history, sawPartial, plugin, result,
                   pre_modified, pre_playlists, encoder>>

\* one scan of a playlist file, step by step
Expansion ==
    \/ \E n \in PlaylistNames, m \in Mtimes : Begin(n, m)
    \/ WalkerLock
    \/ LockMakeVirtualDirectoryIfModified
    \/ OpenStreamOk
    \/ OpenStreamNull
    \/ OpenStreamThrows
    \/ \E uri \in URIs : NextSongEntry(uri)
    \/ NextSongEnd
    \/ NextSongThrows
    \/ \E found \in BOOLEAN : Stat(found)
    \/ AddAndOverride
    \/ LockDeleteDirectory
    \/ CheckEmpty
    \/ CheckEmptyNull
    \/ \E outcome \in {"fault", "empty", "nonempty"} : CheckEmptyDangling(outcome)
    \/ \E aborts \in BOOLEAN : DeleteDangling(aborts)
    \/ ReturnTrue
    \/ Return

\* the update thread alone: scans, purge passes and the filesystem walk
Next ==
    \/ Expansion
    \/ BeginPurge
    \/ PurgeDanglingFromPlaylists
    \/ WalkEnds
    \/ \E f \in FileNames : WalkAddSong(f)

Spec == Init /\ [][Next]_vars

\* the scans of the update thread and a reader thread
NextWithReader ==
    \/ Expansion
    \/ ReaderLock
    \/ ReaderUnlock

SpecWithReader == Init /\ [][NextWithReader]_vars

\* the playlist collections the parent can have when the database is
\* loaded: none, another playlist q, or q and p as registered by an earlier walk
LoadedPlaylists ==
    {<<>>,
     <<[name |-> "q", mtime |-> 1]>>,
     <<[name |-> "q", mtime |-> 1], [name |-> "p", mtime |-> 1]>>}

InitDispatch ==
    /\ songs \in UNION { [S -> {FALSE}] : S \in SUBSET FileNames }
    /\ children = NoChildren
    /\ modified = FALSE
    /\ db_mutex = "free"
    /\ pc = "idle"
    /\ name = ""
    /\ info_mtime = 0
    /\ directory = "null"
    /\ track = 0
    /\ song_map = {}
    /\ target_filename = EmptyStr
    /\ db_song = NoSong
    /\ fetched = <<>>
    /\ stop = "none"
    /\ sync = "none"
    /\ pre_songs = NoSongs
    /\ pre_children = NoChildren
    /\ sawPartial = FALSE
    /\ playlists \in LoadedPlaylists
    /\ plugin = "unset"
    /\ result = "unset"
    /\ pre_modified = FALSE
    /\ pre_playlists = <<>>
    /\ opened = FALSE
    /\ output_buffer_length = 0
    /\ output_buffer_position = 0
    /\ flush = FALSE
    /\ last = NoCall

\* the dispatcher on files of every kind
NextDispatch ==
    \/ Expansion
    \/ \E n \in PlaylistNames, m \in Mtimes : NotPlaylist(n, m)
    \/ \E n \in PlaylistNames, m \in Mtimes : BeginRegister(n, m)
    \/ UpdateOrInsertPlaylist

SpecDispatch == InitDispatch /\ [][NextDispatch]_vars

\* every operation of the update thread that edits the tree, up to the
\* purge that ends a walk, and a reader
NextLocking ==
    \/ Expansion
    \/ \E n \in PlaylistNames, m \in Mtimes : BeginRegister(n, m)
    \/ UpdateOrInsertPlaylist
    \/ BeginPurge
    \/ PurgeDanglingFromPlaylists
    \/ ReaderLock
    \/ ReaderUnlock

SpecLocking == Init /\ [][NextLocking]_vars

\* ------------------------------------------- the Twolame encoder's buffer
\* sizeof(output_buffer), TwolameEncoderPlugin.cxx line 41
OutputBufferSize == 32768

\* what twolame_encode_buffer_interleaved and twolame_encode_flush return:
\* an error, or the number of bytes put into a buffer of OutputBufferSize
EncodeResults == {-1, 0, 1, 20000, OutputBufferSize}
\* the length argument of a read call
ReadSizes == {0, 4096, 16384, OutputBufferSize}

\* mutant of ReadLength: the clamp is missing
ReadLengthUnclamped(length, remainning) == length

\* lines 289-292: if (length > remainning) length = remainning
ReadLength(length, remainning) ==
    IF length > remainning THEN remainning ELSE length

\* lines 191-219: twolame_encoder_open succeeds
twolame_encoder_open ==
    /\ ~opened
    /\ opened' = TRUE
    /\ output_buffer_length' = 0
    /\ output_buffer_position' = 0
    /\ flush' = FALSE
    /\ last' = [op |-> "open", requested |-> 0, returned |-> 0]
    /\ UNCHANGED playlist

\* lines 203-212: twolame_init or the setup fails; the fields are not set
twolame_encoder_open_fails ==
    /\ ~opened
    /\ last' = [op |-> "open_failed", requested |-> 0, returned |-> 0]
    /\ UNCHANGED <<playlist, opened, output_buffer_length,
                   output_buffer_position, flush>>

\* lines 221-227: twolame_encoder_close
twolame_encoder_close ==
    /\ opened
    /\ opened' = FALSE
    /\ last' = [op |-> "close", requested |-> 0, returned |-> 0]
    /\ UNCHANGED <<playlist, output_buffer_length, output_buffer_position,
                   flush>>

\* lines 229-236: twolame_encoder_flush
twolame_encoder_flush ==
    /\ opened
    /\ flush' = TRUE
    /\ last' = [op |-> "flush", requested |-> 0, returned |-> 0]
    /\ UNCHANGED <<playlist, opened, output_buffer_length,
                   output_buffer_position>>

\* lines 238-265: twolame_encoder_write, called once the buffer has been
\* read to its end (the assertion of lines 246-247)
twolame_encoder_write(bytes_out) ==
    /\ opened
    /\ output_buffer_position = output_buffer_length
    /\ IF bytes_out < 0
       THEN /\ last' = [op |-> "write_failed", requested |-> 0, returned |-> 0]
            /\ UNCHANGED <<output_buffer_length, output_buffer_position>>
       ELSE /\ output_buffer_length' = bytes_out
            /\ output_buffer_position' = 0
            /\ last' = [op |-> "write", requested |-> 0, returned |-> 0]
    /\ UNCHANGED <<playlist, opened, flush>>

\* lines 267-300: twolame_encoder_read; ret is what twolame_encode_flush
\* returns if it is called
twolame_encoder_read(length, ret) ==
    /\ opened
    /\ LET flushing == output_buffer_position = output_buffer_length /\ flush
           refill == flushing /\ ret > 0
           buffer_length == IF refill THEN ret ELSE output_buffer_length
           buffer_position == IF refill THEN 0 ELSE output_buffer_position
           n == ReadLength(length, buffer_length - buffer_position)
       IN  /\ output_buffer_length' = buffer_length
           /\ output_buffer_position' = buffer_position + n
           /\ flush' = IF flushing THEN FALSE ELSE flush
           /\ last' = [op |-> "read", requested |-> length, returned |-> n]
    /\ UNCHANGED <<playlist, opened>>

NextEncoder ==
    \/ twolame_encoder_open
    \/ twolame_encoder_open_fails
    \/ twolame_encoder_close
    \/ twolame_encoder_flush
    \/ \E bytes_out \in EncodeResults : twolame_encoder_write(bytes_out)
    \/ \E length \in ReadSizes, ret \in EncodeResults :
          twolame_encoder_read(length, ret)

\* one encoder, the tree at rest
InitEncoder == Init /\ songs = NoSongs

SpecEncoder == InitEncoder /\ [][NextEncoder]_vars

\* ----------------------------------------------------- what the claims use
\* the target line 71-76 must give an entry of the modelled URIs
ExpectedTarget(uri) ==
    IF uri[1] = "/" THEN uri ELSE <<".", ".", "/">> \o uri

\* the file name of the i-th virtual Song, for i < 10
ExpectedTrackName(i) ==
    <<"t", "r", "a", "c", "k", "0", "0", "0">> \o <<DigitChars[i + 1]>>

\* the Songs a complete drain of the given entries leaves in a fresh Directory
ExpectedExpansion(entries) ==
    [i \in 1..Len(entries) |->
        [filename |-> ExpectedTrackName(i), target |-> ExpectedTarget(entries[i])]]

\* the expansion had a virtual Directory to fill
DirectoryPresent == sync \in {"created", "reused"}

\* the drain met the sentinel or a missing target
HardStopped == stop \in {"bail", "missing"}

\* the positions after the drain loop
AfterDrain == {"check", "final_delete", "done", "returned", "crashed"}

\* C1: with a virtual Directory present, a bail entry or a failed probe ends
\* the drain: the entry that stopped it is the last one fetched, the Directory
\* is gone once the rollback's critical section has run, and no virtual
\* Directory of the playlist exists when the operation returns.
C1_HardStopRollsBack ==
    (DirectoryPresent /\ HardStopped) =>
        /\ pc \in AfterDrain \cup {"drain_delete"}
        /\ (stop = "bail" => fetched[Len(fetched)] = BailURI)
        /\ (stop = "missing" => fetched[Len(fetched)] = target_filename)
        /\ (pc \in AfterDrain => name \notin DOMAIN children)

C1_Witness ==
    /\ pc = "done"
    /\ DirectoryPresent
    /\ HardStopped
    /\ Len(fetched) = 2
    /\ name \notin DOMAIN children

\* C2 as stated: after [A, bail, ...] with A's target present the virtual
\* Directory exists and holds exactly the expansion of A.
C2_Original ==
    (/\ pc = "done"
     /\ DirectoryPresent
     /\ Len(fetched) = 2
     /\ fetched[1] # BailURI
     /\ fetched[2] = BailURI)
    => /\ name \in DOMAIN children
       /\ children[name].songs = ExpectedExpansion(<<fetched[1]>>)

\* C2 as amended: after [A, bail, B] nothing after the sentinel is fetched; A's
\* Song, added when A's target exists, is discarded with the Directory, and no
\* virtual Directory exists afterwards whether or not A's target exists.
C2_BailDiscardsAll ==
    /\ (DirectoryPresent /\ Len(fetched) = 2 /\ fetched[1] # BailURI
                         /\ fetched[2] = BailURI)
       => /\ pc \in AfterDrain \cup {"drain_delete"}
          /\ (pc = "drain_delete" =>
                /\ name \in DOMAIN children
                /\ children[name].songs = ExpectedExpansion(<<fetched[1]>>))
          /\ (pc # "drain_delete" => name \notin DOMAIN children)
    /\ (DirectoryPresent /\ Len(fetched) = 1 /\ stop = "missing" /\ pc = "done")
       => name \notin DOMAIN children

C2_Witness ==
    /\ pc = "done"
    /\ sync = "created"
    /\ Len(fetched) = 2
    /\ fetched[1] # BailURI
    /\ fetched[2] = BailURI
    /\ name \notin DOMAIN children

\* C3: when an expansion ends in a hard stop or a failure, the tree outside
\* the playlist's virtual Directory is as it was before the operation: the
\* parent's Songs and every other child are unchanged.
C3_FailureLeavesTree ==
    (pc = "done" /\ stop # "none") =>
        /\ songs = pre_songs
        /\ \A d \in (DOMAIN pre_children) \ {name} :
              d \in DOMAIN children /\ children[d] = pre_children[d]

\* the expansion deleted the virtual Directory it was given
RolledBack == DirectoryPresent /\ stop # "none"

\* C4 as stated: no reader sees Songs of an expansion that is rolled back.
C4_Original ==
    (pc = "done" /\ RolledBack) => ~sawPartial

\* C4 as amended: between the critical sections a reader sees the Songs added
\* so far, never fewer; once the rollback's critical section has run, a reader
\* holding the lock finds no virtual Directory of that playlist.
C4_RollbackIsOneSection ==
    (db_mutex = "reader" /\ DirectoryPresent) =>
        /\ (RolledBack /\ pc \in {"check", "final_delete", "done", "returned"})
              => name \notin DOMAIN children
        /\ (name \in DOMAIN children /\ pc \in {"next", "stat", "add", "drain_delete"})
              => \E k \in 0..Len(fetched) :
                    children[name].songs = ExpectedExpansion(SubSeq(fetched, 1, k))

C4_Witness ==
    /\ db_mutex = "reader"
    /\ pc = "done"
    /\ RolledBack
    /\ sawPartial
    /\ name \notin DOMAIN children

\* the critical section of the i-th fetched entry has run
Processed(i) ==
    \/ i < Len(fetched)
    \/ (~HardStopped /\ pc \in AfterDrain \cup {"next"})

\* the virtual Directory holds a Song whose target is "../" followed by f
HasSongFor(f) ==
    /\ name \in DOMAIN children
    /\ \E j \in 1..Len(children[name].songs) :
          children[name].songs[j].target = <<".", ".", "/">> \o f

\* C5 as stated: after the expansion of a playlist with an entry X that
\* passed the probe, for a real Song X of the parent, the parent has no Song X
\* and the virtual Directory holds a Song with target "../X".
C5_Original ==
    \A i \in 1..Len(fetched) :
        (/\ pc = "done"
         /\ fetched[i] \in DOMAIN pre_songs
         /\ (i < Len(fetched) \/ ~HardStopped))
        => (fetched[i] \notin DOMAIN songs /\ HasSongFor(fetched[i]))

\* C5 as amended: the critical section of an entry X that passed the probe
\* removes the real Song X from the parent, in every run; the virtual
\* Directory holds a Song with target "../X" after an expansion that had a
\* virtual Directory and ended without a hard stop or failure.
C5_Override ==
    \A i \in 1..Len(fetched) :
        (fetched[i] \in DOMAIN pre_songs /\ Processed(i)) =>
            /\ fetched[i] \notin DOMAIN songs
            /\ (pc = "done" /\ stop = "none" /\ DirectoryPresent)
                  => HasSongFor(fetched[i])

C5_Witness ==
    /\ pc = "done"
    /\ stop = "none"
    /\ sync = "created"
    /\ Len(fetched) = 2
    /\ fetched[2] \in DOMAIN pre_songs
    /\ fetched[2] \notin DOMAIN songs
    /\ HasSongFor(fetched[2])

\* the entries fetched so far are those the stored virtual Directory was
\* built from: the playlist file is the one expanded before
SameContents ==
    /\ name \in DOMAIN pre_children
    /\ Len(fetched) <= Len(pre_children[name].songs)
    /\ \A i \in 1..Len(fetched) :
          pre_children[name].songs[i].target = ExpectedTarget(fetched[i])

\* C6 as stated: a run on a playlist whose modification time equals the
\* stored one changes nothing in the tree (here for a file whose contents
\* are unchanged too).
C6_Original ==
    (sync = "unchanged" /\ SameContents)
        => (songs = pre_songs /\ children = pre_children)

\* C6 as amended: such a run leaves every virtual Directory as it was and
\* adds nothing; the only change it makes is the removal, from the parent, of
\* real Songs named by an entry that passed the probe.
C6_UnchangedRun ==
    sync = "unchanged" =>
        /\ directory = "null"
        /\ children = pre_children
        /\ DOMAIN songs \subseteq DOMAIN pre_songs
        /\ \A f \in DOMAIN songs : songs[f] = pre_songs[f]
        /\ \A f \in (DOMAIN pre_songs) \ (DOMAIN songs) :
              \E i \in 1..Len(fetched) :
                  fetched[i] = f /\ (i < Len(fetched) \/ ~HardStopped)

C6_Witness ==
    /\ sync = "unchanged"
    /\ SameContents
    /\ pc = "check"
    /\ Len(fetched) = 2
    /\ songs # pre_songs
    /\ children = pre_children
    /\ Len(children[name].songs) > 0

\* C7: a successful re-expansion of a playlist whose modification time
\* differs from the stored one leaves exactly the expansion of the new
\* sequence, under the new modification time.
C7_RebuildOnChange ==
    (pc = "done" /\ sync = "reused" /\ stop = "none" /\ Len(fetched) > 0) =>
        /\ name \in DOMAIN children
        /\ pre_children[name].mtime # info_mtime
        /\ children[name].mtime = info_mtime
        /\ children[name].songs = ExpectedExpansion(fetched)

C7_Witness ==
    /\ pc = "done"
    /\ sync = "reused"
    /\ stop = "none"
    /\ Len(fetched) = 1
    /\ Len(pre_children[name].songs) = 2
    /\ children[name].songs # SubSeq(pre_children[name].songs, 1, 1)

\* C8: after a completed expansion or purge no virtual Directory is empty.
C8_NoEmptyVirtualDirectory ==
    pc \in {"done", "purged"} =>
        \A d \in DOMAIN children : Len(children[d].songs) > 0

\* C9: a successful expansion of n entries into a fresh virtual Directory
\* leaves n Songs named track0001.. in order, pairwise distinct, the i-th
\* carrying the target of the i-th entry.
C9_NamingInOrder ==
    (pc = "done" /\ sync = "created" /\ stop = "none" /\ Len(fetched) > 0) =>
        /\ name \in DOMAIN children
        /\ Len(children[name].songs) = Len(fetched)
        /\ \A i \in 1..Len(fetched) :
              /\ children[name].songs[i].filename = ExpectedTrackName(i)
              /\ children[name].songs[i].target = ExpectedTarget(fetched[i])
        /\ \A i, j \in 1..Len(fetched) :
              i # j => children[name].songs[i].filename
                          # children[name].songs[j].filename

C9_Witness ==
    /\ pc = "done"
    /\ sync = "created"
    /\ stop = "none"
    /\ Len(fetched) = 3
    /\ fetched[1] = fetched[3]
    /\ Len(children[name].songs) = 3

\* a virtual Song the purge must remove: a relative target naming no Song
\* the parent had when the pass began
Dangling(s) ==
    /\ s.target # <<>>
    /\ s.target[1] # "/"
    /\ ~\E f \in DOMAIN pre_songs : s.target = <<".", ".", "/">> \o f

\* a virtual Song that was in the tree when the pass began refers to f
Referenced(f) ==
    \E d \in DOMAIN pre_children : \E i \in 1..Len(pre_children[d].songs) :
        pre_children[d].songs[i].target = <<".", ".", "/">> \o f

\* C10: a purge pass removes exactly the dangling virtual Songs, sets
\* modified when it removes one, sets in_playlist on exactly the Songs a
\* virtual Song resolves to, and changes nothing else.
C10_PurgePass ==
    pc = "purged" =>
        /\ DOMAIN children = DOMAIN pre_children
        /\ \A d \in DOMAIN children :
              /\ children[d].mtime = pre_children[d].mtime
              /\ children[d].songs =
                    SelectSeq(pre_children[d].songs, LAMBDA s : ~Dangling(s))
              /\ (\E i \in 1..Len(pre_children[d].songs) :
                      Dangling(pre_children[d].songs[i])) => modified
        /\ DOMAIN songs = DOMAIN pre_songs
        /\ \A f \in DOMAIN songs :
              songs[f] = (pre_songs[f] \/ Referenced(f))

C10_Witness ==
    /\ pc = "purged"
    /\ modified
    /\ \E d \in DOMAIN children :
          /\ Len(pre_children[d].songs) = 3
          /\ Len(children[d].songs) = 2
          /\ children[d].songs[1].target[1] # "/"
          /\ children[d].songs[2].target[1] = "/"
    /\ \E f \in DOMAIN songs : songs[f] /\ ~pre_songs[f]

\* some virtual Song now in the tree resolves its target to the real Song f
ReferencedNow(f) ==
    \E d \in DOMAIN children : \E i \in 1..Len(children[d].songs) :
        children[d].songs[i].target = <<".", ".", "/">> \o f

\* C11: after every completed purge pass a real Song has in_playlist = true
\* if and only if some virtual Song now in the tree resolves to it; a flag
\* set by an earlier pass is cleared once nothing references the Song.
C11_InPlaylistExact ==
    pc = "purged" =>
        \A f \in DOMAIN songs : songs[f] <=> ReferencedNow(f)

\* C12: an error raised while the next entry is fetched is a failure of that
\* playlist only: the process is not terminated, the failure handler deletes
\* the virtual Directory if one was present, and the operation returns.
C12_IterationErrorRecovers ==
    stop = "iter_error" =>
        /\ pc \in {"catch_delete", "done"}
        /\ (pc = "done" /\ DirectoryPresent) => name \notin DOMAIN children

\* the stream could not be opened, or the plugin gave no sequence
OpenFailed == stop \in {"open_null", "open_throw"}

\* C13: when the stream fails to open or the plugin yields no sequence, no
\* entry is fetched, the parent's Songs and every other Directory stay as
\* they were, the virtual Directory created or reused for the run is deleted
\* by one critical section (present until it runs, gone afterwards, never
\* deleted again), an unchanged playlist loses nothing, and the operation
\* returns.
C13_OpenFailureRollsBack ==
    OpenFailed =>
        /\ fetched = <<>>
        /\ songs = pre_songs
        /\ \A d \in (DOMAIN pre_children) \ {name} :
              d \in DOMAIN children /\ children[d] = pre_children[d]
        /\ pc \in {"open_delete", "catch_delete", "done", "returned"}
        /\ (pc \in {"open_delete", "catch_delete"}) =>
              (DirectoryPresent /\ directory = "valid" /\ name \in DOMAIN children)
        /\ (pc \in {"done", "returned"} /\ DirectoryPresent) =>
              (directory = "dangling" /\ name \notin DOMAIN children)
        /\ ~DirectoryPresent => (directory = "null" /\ children = pre_children)

C13_Witness ==
    /\ pc = "done"
    /\ stop = "open_throw"
    /\ sync = "reused"
    /\ Len(pre_children[name].songs) = 2
    /\ DOMAIN songs # {}
    /\ songs = pre_songs
    /\ name \notin DOMAIN children

\* the operation is over: the dispatcher returned, or the process ended
Ended == pc \in {"returned", "crashed"}

\* C14: the dispatcher returns false exactly when no plugin handles the
\* suffix, and then the tree is as before; when a plugin is found the
\* operation ends with the answer true, whatever its outcome.
C14_ClassificationResult ==
    Ended =>
        /\ (result = "false") <=> (plugin = "null")
        /\ (plugin = "null") =>
              /\ songs = pre_songs
              /\ children = pre_children
              /\ playlists = pre_playlists
              /\ modified = pre_modified
        /\ (plugin \in {"folder", "flat"}) => result = "true"

\* the positions of the stored PlaylistInfos that carry the name n
EntriesNamed(list, n) == {i \in 1..Len(list) : list[i].name = n}

\* the collection held no PlaylistInfo of this name and modification time
\* when the operation began
RegistrationNews ==
    ~\E i \in EntriesNamed(pre_playlists, name) :
        pre_playlists[i].mtime = info_mtime

\* C15: after the registration of a playlist that is not expanded as a
\* folder, the parent's collection holds exactly one PlaylistInfo of that
\* name, with the file's modification time, and every other entry as before;
\* modified is set by the operation exactly when no entry of that name
\* existed or its timestamp differed; no Song and no Directory has changed.
C15_MetadataRegistration ==
    (plugin = "flat" /\ pc \in {"registered", "returned"}) =>
        /\ Cardinality(EntriesNamed(playlists, name)) = 1
        /\ \A i \in EntriesNamed(playlists, name) : playlists[i].mtime = info_mtime
        /\ \A i \in 1..Len(pre_playlists) :
              pre_playlists[i].name # name => playlists[i] = pre_playlists[i]
        /\ Len(playlists) = Len(pre_playlists)
                + (IF EntriesNamed(pre_playlists, name) = {} THEN 1 ELSE 0)
        /\ modified <=> (pre_modified \/ RegistrationNews)
        /\ songs = pre_songs
        /\ children = pre_children

C15_Witness ==
    /\ plugin = "flat"
    /\ pc = "returned"
    /\ Len(pre_playlists) = 2
    /\ pre_playlists[2] = [name |-> name, mtime |-> 1]
    /\ playlists[2] = [name |-> name, mtime |-> 2]
    /\ ~pre_modified
    /\ modified
    /\ DOMAIN songs # {}
    /\ DOMAIN children # {}

\* the step edits the tree: the parent's Songs or their flags, the virtual
\* Directories or their Songs, or the playlist collection
TreeEdit ==
    \/ songs' # songs
    \/ children' # children
    \/ playlists' # playlists

\* C16: every step of the update thread that edits the tree is taken while
\* the update thread holds the database lock, and ends the critical section;
\* no edit happens while a reader holds the lock.
C16_EditsUnderLock ==
    [][TreeEdit => (db_mutex = "walker" /\ db_mutex' = "free")]_vars

\* a reader holds the lock between two edits of one expansion: the first
\* edit is made, the update thread waits with the second
C16_Witness ==
    /\ db_mutex = "reader"
    /\ pc = "add"
    /\ sawPartial
    /\ songs # pre_songs
    /\ children # pre_children
    /\ playlists # <<>>

\* the positions at which the update thread opens the stream, fetches the
\* next entry or probes a target
BlockingPcs == {"open", "next", "stat"}

\* the Songs a virtual Directory holds, none if it does not exist
VirtualSongs(kids, n) == IF n \in DOMAIN kids THEN kids[n].songs ELSE <<>>

\* C17: the update thread does not hold the database lock while it opens
\* the stream, fetches the next entry or probes a target; the critical
\* section of the drain adds at most one virtual Song and removes at most
\* one real Song, fetches nothing, and has released the lock when the drain
\* goes on to fetch the next entry.
C17_BlockingOutsideLock ==
    [][/\ (pc \in BlockingPcs => db_mutex # "walker")
       /\ (pc' \in BlockingPcs => db_mutex' # "walker")
       /\ (pc = "add" /\ db_mutex = "walker") =>
             /\ pc' = "next"
             /\ db_mutex' = "free"
             /\ fetched' = fetched
             /\ Len(VirtualSongs(children', name))
                   <= Len(VirtualSongs(children, name)) + 1
             /\ Cardinality((DOMAIN songs) \ (DOMAIN songs')) <= 1]_vars

\* a reader holds the lock while the update thread probes the target of the
\* second entry, the edits of the first being made
C17_Witness ==
    /\ db_mutex = "reader"
    /\ pc = "stat"
    /\ Len(fetched) = 2
    /\ Len(VirtualSongs(children, name)) = 1
    /\ songs # pre_songs

\* C18: within one expansion the virtual Directory is read (line 135) and
\* deleted (line 136) only while it is live: never when the synchronizer
\* gave none, never after the drain or a handler has deleted it.
C18_HandleSafety ==
    pc \in {"check", "final_delete", "drain_delete", "open_delete",
            "catch_delete"} => directory = "valid"

\* the real Songs the operation has removed from the parent so far
Removed == (DOMAIN pre_songs) \ (DOMAIN songs)

\* C19: during one drain a real Song is removed only for an entry of its
\* name whose critical section has run; the snapshot lookup refers to live
\* Songs only, and to every Song the parent still has, so a Song once removed
\* is not found, removed or accessed again by a later entry of the same URI.
C19_OverrideOnce ==
    /\ song_map \subseteq DOMAIN songs
    /\ pc \in {"next", "stat", "add"} => song_map = DOMAIN songs
    /\ pc \notin {"idle", "purge", "purged"} =>
          \A f \in Removed :
              /\ f \notin song_map
              /\ \E i \in 1..Len(fetched) : fetched[i] = f /\ Processed(i)

C19_Witness ==
    /\ pc = "next"
    /\ Len(fetched) = 2
    /\ fetched[1] = fetched[2]
    /\ fetched[1] \in Removed
    /\ song_map = DOMAIN songs
    /\ song_map # {}

Min(a, b) == IF a < b THEN a ELSE b

\* the step is a read call: its argument and its return value
IsRead == last'.op = "read"

\* C20: while the encoder is open, 0 <= output_buffer_position <=
\* output_buffer_length <= 32768; a read call first consumes a pending flush
\* if it finds the buffer drained, clearing the flag and taking what the
\* flush produced as the new buffer, then returns min(requested, length -
\* position) bytes and advances the position by that amount; a read that
\* finds unread bytes leaves the flag alone, and no other call clears it.
C20_OutputBuffer ==
    [][opened' =>
        /\ 0 <= output_buffer_position'
        /\ output_buffer_position' <= output_buffer_length'
        /\ output_buffer_length' <= OutputBufferSize
        /\ IsRead =>
              IF output_buffer_position = output_buffer_length /\ flush
              THEN /\ flush' = FALSE
                   /\ \/ /\ output_buffer_length' = output_buffer_length
                         /\ output_buffer_position' = output_buffer_position
                         /\ last'.returned = 0
                      \/ /\ output_buffer_length' > 0
                         /\ last'.returned =
                                Min(last'.requested, output_buffer_length')
                         /\ output_buffer_position' = last'.returned
              ELSE /\ flush' = flush
                   /\ output_buffer_length' = output_buffer_length
                   /\ last'.returned =
                         Min(last'.requested,
                             output_buffer_length - output_buffer_position)
                   /\ output_buffer_position' =
                         output_buffer_position + last'.returned
        /\ (opened /\ flush /\ ~flush') =>
              (IsRead /\ output_buffer_position = output_buffer_length)]_vars

\* a read asked for more than was left after an earlier read and got the rest
C20_Witness ==
    /\ opened
    /\ last = [op |-> "read", requested |-> OutputBufferSize, returned |-> 3616]
    /\ output_buffer_length = 20000
    /\ output_buffer_position = 20000
    /\ flush

====
